---- MODULE Spec2Model ----
(***************************************************************************)
(* A model of the ORE live route (frontend/app/api/ore/live/route.ts):     *)
(* the Board / Round account decoders, the winning-square computation and   *)
(* the round timing of its three GET handlers, the seeds of the Board and    *)
(* Round addresses, and the handlers await by await on a chain that moves.  *)
(*                                                                          *)
(* Representation.                                                          *)
(*  - A buffer is a sequence of bytes (0..255); At(data, i) is data[i] of   *)
(*    the source (0-based).                                                 *)
(*  - A JavaScript bigint holding a u64 is its eight base-256 digits, least *)
(*    significant first: TLC's integers are 32 bits wide and cannot hold a  *)
(*    u64.  XOR and % on bigints are computed on the digits, exactly.       *)
(*  - A JavaScript number that holds an integer is a TLA+ integer; Number() *)
(*    is exact below 2^53 and the inputs of the model stay below 2^31.      *)
(*  - JavaScript null is Null (for a number) or NoAddress (for a string).   *)
(***************************************************************************)
EXTENDS Integers, Sequences, FiniteSets, TLC

VARIABLES
    slotHash,      \* argument of calculateWinningSquare (32 bytes)
    winner,        \* whether it was called, and its return value
    currentSlot,   \* the chain: the slot connection.getSlot() returns
    boardAccount,  \* the chain: the Board account (exists, data)
    rounds,        \* the chain: round id -> Round account (exists, data)
    resp,          \* the response of the last GET handler that ran
    dSrc,          \* decoder harness: the record that was encoded
    dBuf,          \* decoder harness: the buffer handed to the decoder
    dOut,          \* decoder harness: what the decoder did with it
    pda,           \* a round id, the platform, and the seeds each handler
                   \* builds for the address of that round's account
    run,           \* a handler between its awaits: where it is, and the
                   \* slot and the accounts it has fetched so far
    seen,          \* the states the chain was in while that handler ran
    page,          \* the test-20 page: its React state and its refs
    polls,         \* the fetchData callbacks in flight, by the await they are at
    backend,       \* what /api/state and /api/results answer from
    timer          \* a RoundTimer: its props, its state, its interval, the clock

uiVars == <<page, polls, backend, timer>>

vars == <<slotHash, winner, currentSlot, boardAccount, rounds, resp,
          dSrc, dBuf, dOut, pda, run, seen, page, polls, backend, timer>>

----------------------------------------------------------------------------
(* Bytes, bigints and numbers *)

Byte == 0..255

Null == -1

NoAddress == <<>>

At(data, i) == data[i + 1]

InRange(data, i) == i >= 0 /\ i < Len(data)

\* Buffer.prototype.slice(start, end): clamps both ends to the buffer.
Slice(data, start, end) ==
    LET s == IF start > Len(data) THEN Len(data) ELSE start
        e == IF end > Len(data) THEN Len(data) ELSE end
    IN IF e <= s THEN <<>> ELSE SubSeq(data, s + 1, e)

RECURSIVE XorNat(_, _)
XorNat(a, b) ==
    IF a = 0 THEN b
    ELSE IF b = 0 THEN a
    ELSE (((a % 2) + (b % 2)) % 2) + 2 * XorNat(a \div 2, b \div 2)

\* bigint ^ bigint, on u64 digits
BigXor(x, y) == [i \in 1..8 |-> XorNat(x[i], y[i])]

\* bigint % BigInt(m), for a small m: Horner's rule from the top digit
RECURSIVE BigModFrom(_, _, _)
BigModFrom(x, m, i) ==
    IF i > 8 THEN 0
    ELSE (x[i] + 256 * BigModFrom(x, m, i + 1)) % m

BigMod(x, m) == BigModFrom(x, m, 1)

\* Number(bigint): the value of the digits
RECURSIVE NumberFrom(_, _)
NumberFrom(x, i) ==
    IF i > 8 THEN 0
    ELSE LET hi == NumberFrom(x, i + 1)
         IN IF hi = 0 THEN x[i] ELSE x[i] + 256 * hi

Number(x) == NumberFrom(x, 1)

Max(a, b) == IF a >= b THEN a ELSE b

----------------------------------------------------------------------------
(* readU64 and calculateWinningSquare (third handler's helpers) *)

\* data[offset + i] is undefined past the end and BigInt(undefined) throws a
\* TypeError: readU64 returns a bigint only when all eight bytes exist.
readU64Throws(data, offset) == ~InRange(data, offset + 7)

readU64BE(data, offset) == [i \in 1..8 |-> At(data, offset + 8 - i)]

readU64(data, offset) == [i \in 1..8 |-> At(data, offset + i - 1)]

AllBytes(data, b) == \A i \in 1..Len(data) : data[i] = b

calculateWinningSquareThrows(h) ==
    /\ ~(AllBytes(h, 0) \/ AllBytes(h, 255))
    /\ Len(h) < 32

calculateWinningSquareNoPlusOne(h) ==
    IF AllBytes(h, 0) \/ AllBytes(h, 255) THEN Null
    ELSE BigMod(BigXor(BigXor(readU64(h, 0), readU64(h, 8)),
                       BigXor(readU64(h, 16), readU64(h, 24))), 25)

calculateWinningSquareNoAllMax(h) ==
    IF AllBytes(h, 0) THEN Null
    ELSE BigMod(BigXor(BigXor(readU64(h, 0), readU64(h, 8)),
                       BigXor(readU64(h, 16), readU64(h, 24))), 25) + 1

calculateWinningSquare(h) ==
    IF AllBytes(h, 0) \/ AllBytes(h, 255) THEN Null
    ELSE LET r1 == readU64(h, 0)
             r2 == readU64(h, 8)
             r3 == readU64(h, 16)
             r4 == readU64(h, 24)
             rng == BigXor(BigXor(BigXor(r1, r2), r3), r4)
         IN BigMod(rng, 25) + 1

----------------------------------------------------------------------------
(* Accounts *)

NoAccount == [exists |-> FALSE, data |-> <<>>]

Account(bytes) == [exists |-> TRUE, data |-> bytes]

\* connection.getAccountInfo(round PDA of id): null when no such account
getRoundAccount(id) == IF id \in DOMAIN rounds THEN rounds[id] ELSE NoAccount

----------------------------------------------------------------------------
(* parseBoard and parseRound (first handler's decoders) *)

\* Buffer.readBigUInt64LE(offset) throws a RangeError unless
\* offset + 8 <= length; it checks before it reads.
readBigUInt64LEThrows(data, offset) == offset + 8 > Len(data)

readBigUInt64LE(data, offset) == [i \in 1..8 |-> At(data, offset + i - 1)]

\* The offsets parseBoard reads, in the order of the code
BoardReadOffsets == <<0, 8, 16, 24>>

\* parseBoard reading a fifth word, past the last field of a Board
parseBoardThrowsFifthWord(data) ==
    \E o \in {0, 8, 16, 24, 32} : readBigUInt64LEThrows(data, o)

parseBoardThrows(data) ==
    \E k \in 1..Len(BoardReadOffsets) :
        readBigUInt64LEThrows(data, BoardReadOffsets[k])

\* parseBoard with the offsets of start_slot and end_slot exchanged
parseBoardSwapped(data) ==
    [ round_id   |-> readBigUInt64LE(data, 0),
      start_slot |-> readBigUInt64LE(data, 16),
      end_slot   |-> readBigUInt64LE(data, 8),
      epoch_id   |-> readBigUInt64LE(data, 24) ]

parseBoard(data) ==
    [ round_id   |-> readBigUInt64LE(data, 0),
      start_slot |-> readBigUInt64LE(data, 8),
      end_slot   |-> readBigUInt64LE(data, 16),
      epoch_id   |-> readBigUInt64LE(data, 24) ]

\* The offsets parseRound reads with readBigUInt64LE, in the order of the
\* code: id, deployed[0..24], count[0..24], motherlode, topMinerReward,
\* totalDeployed, totalMiners, totalVaulted.  The two slices (slot_hash,
\* top_miner) never throw.
RoundReadOffsets ==
    <<0>> \o [i \in 1..25 |-> 8 + (i - 1) * 8]
          \o [i \in 1..25 |-> 240 + (i - 1) * 8]
          \o <<448, 520, 528, 536, 544>>

\* parseRound if it also read total_winnings at 552
parseRoundThrowsWithWinnings(data) ==
    \/ readBigUInt64LEThrows(data, 552)
    \/ \E k \in 1..Len(RoundReadOffsets) :
           readBigUInt64LEThrows(data, RoundReadOffsets[k])

parseRoundThrows(data) ==
    \E k \in 1..Len(RoundReadOffsets) :
        readBigUInt64LEThrows(data, RoundReadOffsets[k])

\* parseRound with deployed read at the raw offset 16
parseRoundShifted(data) ==
    [ id             |-> readBigUInt64LE(data, 0),
      deployed       |-> [i \in 1..25 |-> readBigUInt64LE(data, 16 + (i - 1) * 8)],
      slotHash       |-> Slice(data, 208, 240),
      count          |-> [i \in 1..25 |-> readBigUInt64LE(data, 240 + (i - 1) * 8)],
      motherlode     |-> readBigUInt64LE(data, 448),
      topMiner       |-> Slice(data, 488, 520),
      topMinerReward |-> readBigUInt64LE(data, 520),
      totalDeployed  |-> readBigUInt64LE(data, 528),
      totalMiners    |-> readBigUInt64LE(data, 536),
      totalVaulted   |-> readBigUInt64LE(data, 544) ]

\* parseRound with count read one element late
parseRoundCountLate(data) ==
    [ id             |-> readBigUInt64LE(data, 0),
      deployed       |-> [i \in 1..25 |-> readBigUInt64LE(data, 8 + (i - 1) * 8)],
      slotHash       |-> Slice(data, 208, 240),
      count          |-> [i \in 1..25 |-> readBigUInt64LE(data, 248 + (i - 1) * 8)],
      motherlode     |-> readBigUInt64LE(data, 448),
      topMiner       |-> Slice(data, 488, 520),
      topMinerReward |-> readBigUInt64LE(data, 520),
      totalDeployed  |-> readBigUInt64LE(data, 528),
      totalMiners    |-> readBigUInt64LE(data, 536),
      totalVaulted   |-> readBigUInt64LE(data, 544) ]

parseRound(data) ==
    [ id             |-> readBigUInt64LE(data, 0),
      deployed       |-> [i \in 1..25 |-> readBigUInt64LE(data, 8 + (i - 1) * 8)],
      slotHash       |-> Slice(data, 208, 240),
      count          |-> [i \in 1..25 |-> readBigUInt64LE(data, 240 + (i - 1) * 8)],
      motherlode     |-> readBigUInt64LE(data, 448),
      topMiner       |-> Slice(data, 488, 520),
      topMinerReward |-> readBigUInt64LE(data, 520),
      totalDeployed  |-> readBigUInt64LE(data, 528),
      totalMiners    |-> readBigUInt64LE(data, 536),
      totalVaulted   |-> readBigUInt64LE(data, 544) ]

\* How many readBigUInt64LE calls of `offsets` complete before one throws
RECURSIVE ReadsCompleted(_, _, _)
ReadsCompleted(data, offsets, k) ==
    IF k > Len(offsets) THEN Len(offsets)
    ELSE IF readBigUInt64LEThrows(data, offsets[k]) THEN k - 1
    ELSE ReadsCompleted(data, offsets, k + 1)

----------------------------------------------------------------------------
(* Round timing, as the three handlers compute it *)

slotsRemainingUnclamped(endSlot, slot) == endSlot - slot

\* Math.max(0, endSlot - currentSlot)
\* the distance to the end slot, on either side of it
slotsRemainingAbs(endSlot, slot) ==
    IF endSlot >= slot THEN endSlot - slot ELSE slot - endSlot

slotsRemaining(endSlot, slot) == Max(0, endSlot - slot)

isIntermissionStrict(slot, endSlot) == slot > endSlot

\* currentSlot >= endSlot
isIntermission(slot, endSlot) == slot >= endSlot

\* First handler: Math.floor(slotsRemaining * 0.37)
timeRemainingSecsFloor(slots) == (slots * 37) \div 100

\* Second and third handler: Math.round(slotsRemaining / 2.5); Math.round
\* rounds a half up and 2 * slots / 5 is never a half
timeRemainingSecsRound(slots) == (4 * slots + 5) \div 10

----------------------------------------------------------------------------
(* First handler (GET, the live round summary) *)

ErrorResponse(h, msg) == [handler |-> h, status |-> "error", error |-> msg]

\* DataView.getBigUint64(offset, true)
getBigUint64(data, offset) == [i \in 1..8 |-> At(data, offset + i - 1)]

\* The winning index computed whenever the slot hash is not empty, also
\* before the round is over
inlineWinningIndexAnyTime(h, interm) ==
    IF ~AllBytes(h, 0)
    THEN BigMod(BigXor(BigXor(BigXor(getBigUint64(h, 0), getBigUint64(h, 8)),
                              getBigUint64(h, 16)), getBigUint64(h, 24)), 25)
    ELSE Null

\* The index of the square the handler marks is_winning, Null when it marks
\* none: the block "Check for winning square if round completed"
inlineWinningIndex(h, interm) ==
    LET slotHashEmpty == AllBytes(h, 0)
    IN IF ~slotHashEmpty /\ interm
       THEN LET rng == BigXor(BigXor(BigXor(getBigUint64(h, 0), getBigUint64(h, 8)),
                                     getBigUint64(h, 16)), getBigUint64(h, 24))
                winningSquare == BigMod(rng, 25)
            IN IF winningSquare < 25 THEN winningSquare ELSE Null
       ELSE Null

\* the percentage with no guard against a total of zero
percentageOfTotalUnguarded(deployedNum, totalDeployed) ==
    [num |-> deployedNum * 100, den |-> totalDeployed]

\* percentage_of_total as the fraction num / den (the code computes it in
\* floating point)
percentageOfTotal(deployedNum, totalDeployed) ==
    IF totalDeployed > 0
    THEN [num |-> deployedNum * 100, den |-> totalDeployed]
    ELSE [num |-> 4, den |-> 1]

\* squares numbered from 0, as the index is
squareEntryZeroBased(round, i) ==
    [ square_num |-> i - 1,
      index |-> i - 1,
      deployed_lamports |-> Number(round.deployed[i]),
      miner_count |-> Number(round.count[i]),
      is_winning |-> FALSE,
      percentage_of_total |->
          percentageOfTotal(Number(round.deployed[i]), Number(round.totalDeployed)) ]

\* round.deployed.map((deployed, i) => ...): the entry of square i (1-based
\* here), before the winning square is marked
squareEntry(round, i) ==
    [ square_num |-> i,
      index |-> i - 1,
      deployed_lamports |-> Number(round.deployed[i]),
      miner_count |-> Number(round.count[i]),
      is_winning |-> FALSE,
      percentage_of_total |->
          percentageOfTotal(Number(round.deployed[i]), Number(round.totalDeployed)) ]

\* the top miner with no test for the default address
topMinerNeverNull(round) == round.topMiner

\* round.topMiner.equals(PublicKey.default) ? null : round.topMiner.toBase58()
\* (an address is given by its 32 bytes)
topMiner(round) ==
    IF AllBytes(round.topMiner, 0) THEN NoAddress ELSE round.topMiner

GET1Summary(slot, board, round) ==
    LET startSlot      == Number(board.start_slot)
        endSlot        == Number(board.end_slot)
        remaining      == slotsRemaining(endSlot, slot)
        interm         == isIntermission(slot, endSlot)
        totalDeployed  == Number(round.totalDeployed)
        win            == inlineWinningIndex(round.slotHash, interm)
    IN [ handler   |-> 1,
         status    |-> "ok",
         round_id  |-> Number(board.round_id),
         start_slot |-> startSlot,
         end_slot  |-> endSlot,
         current_slot |-> slot,
         slots_remaining |-> remaining,
         time_remaining_secs |-> timeRemainingSecsFloor(remaining),
         is_intermission |-> interm,
         squares |-> [i \in 1..25 |->
             [squareEntry(round, i) EXCEPT !.is_winning = (win = i - 1)]],
         total_deployed_lamports |-> totalDeployed,
         total_miners |-> Number(round.totalMiners),
         total_vaulted_lamports |-> Number(round.totalVaulted),
         top_miner |-> topMiner(round),
         top_miner_reward |-> Number(round.topMinerReward),
         motherlode_lamports |-> Number(round.motherlode) ]

\* The handler with no check for a missing Round account: reading the data
\* of the missing account throws, and the catch answers.
GET1ReplyNoRoundCheck(slot, boardAcc, roundAcc) ==
    IF ~boardAcc.exists THEN ErrorResponse(1, "Board account not found")
    ELSE LET bdata == Slice(boardAcc.data, 8, Len(boardAcc.data))
         IN IF parseBoardThrows(bdata)
            THEN ErrorResponse(1, "Failed to fetch live data")
            ELSE IF ~roundAcc.exists
                    THEN ErrorResponse(1, "Failed to fetch live data")
                    ELSE LET rdata == Slice(roundAcc.data, 8, Len(roundAcc.data))
                         IN IF parseRoundThrows(rdata)
                            THEN ErrorResponse(1, "Failed to fetch live data")
                            ELSE GET1Summary(slot, parseBoard(bdata),
                                             parseRound(rdata))

\* What the first handler answers from the slot, the Board account and the
\* Round account it fetched (the Round account is fetched, and looked at,
\* only when the Board decodes)
GET1Reply(slot, boardAcc, roundAcc) ==
    IF ~boardAcc.exists THEN ErrorResponse(1, "Board account not found")
    ELSE LET bdata == Slice(boardAcc.data, 8, Len(boardAcc.data))
         IN IF parseBoardThrows(bdata)
            THEN ErrorResponse(1, "Failed to fetch live data")
            ELSE IF ~roundAcc.exists
                    THEN ErrorResponse(1, "Round account not found")
                    ELSE LET rdata == Slice(roundAcc.data, 8, Len(roundAcc.data))
                         IN IF parseRoundThrows(rdata)
                            THEN ErrorResponse(1, "Failed to fetch live data")
                            ELSE GET1Summary(slot, parseBoard(bdata),
                                             parseRound(rdata))

\* The first handler finds a Board: the account exists and decodes
GET1BoardDecodes(boardAcc) ==
    /\ boardAcc.exists
    /\ ~parseBoardThrows(Slice(boardAcc.data, 8, Len(boardAcc.data)))

\* getRoundPda(board.roundId) and getAccountInfo of it
GET1RoundAccount(boardAcc) ==
    getRoundAccount(Number(parseBoard(Slice(boardAcc.data, 8,
                                            Len(boardAcc.data))).round_id))

\* The handler with the slot kept in a module-level variable across calls:
\* a call after a successful one reuses the slot of that response
GET1ResponseKeptSlot(slot, boardAcc) ==
    GET1Reply(IF resp.status = "ok" THEN resp.current_slot ELSE slot, boardAcc,
              IF GET1BoardDecodes(boardAcc) THEN GET1RoundAccount(boardAcc)
              ELSE NoAccount)

GET1Response(slot, boardAcc) ==
    GET1Reply(slot, boardAcc,
              IF GET1BoardDecodes(boardAcc) THEN GET1RoundAccount(boardAcc)
              ELSE NoAccount)

----------------------------------------------------------------------------
(* Second and third handler (GET, the board with the deployed amounts) *)

RECURSIVE SumSeq(_, _)
SumSeq(q, k) == IF k = 0 THEN 0 ELSE q[k] + SumSeq(q, k - 1)

ActiveSquares(deployed) == Cardinality({i \in 1..25 : deployed[i] > 0})

BoardSummary(h, roundId, startSlot, endSlot, slot, deployed, lastWin, lastId) ==
    LET remaining == slotsRemaining(endSlot, slot)
    IN [ handler   |-> h,
         status    |-> "ok",
         round_id  |-> roundId,
         start_slot |-> startSlot,
         end_slot  |-> endSlot,
         current_slot |-> slot,
         slots_remaining |-> remaining,
         time_remaining_secs |-> timeRemainingSecsRound(remaining),
         deployed_lamports |-> deployed,
         total_deployed_lamports |-> SumSeq(deployed, 25),
         active_squares |-> ActiveSquares(deployed),
         last_winning_square |-> lastWin,
         last_round_id |-> lastId ]

\* Second handler.  Its readU64 is an arrow function closed over the Board
\* buffer `data`: readU64.call({ data: roundAccount.data }, offset) still
\* reads the Board buffer.
GET2Response(slot, boardAcc) ==
    IF ~boardAcc.exists THEN ErrorResponse(2, "Board account not found")
    ELSE LET data == boardAcc.data
         IN IF \E o \in {8, 16, 24} : readU64Throws(data, o)
            THEN ErrorResponse(2, "TypeError")
            ELSE LET roundId  == Number(readU64(data, 8))
                     roundAcc == getRoundAccount(roundId)
                 IN IF roundAcc.exists
                       /\ \E i \in 0..24 : readU64Throws(data, 8 + i * 8)
                    THEN ErrorResponse(2, "TypeError")
                    ELSE BoardSummary(2, roundId,
                             Number(readU64(data, 16)), Number(readU64(data, 24)),
                             slot,
                             IF roundAcc.exists
                             THEN [i \in 1..25 |-> Number(readU64(data, 8 + (i - 1) * 8))]
                             ELSE [i \in 1..25 |-> 0],
                             Null, Null)

\* Third handler: the Board account is there and its three words can be read
GET3BoardDecodes(boardAcc) ==
    /\ boardAcc.exists
    /\ \A o \in {8, 16, 24} : ~readU64Throws(boardAcc.data, o)

GET3RoundId(boardAcc) == Number(readU64(boardAcc.data, 8))

\* the loop over the deployed amounts of the current round throws
GET3DeployedThrows(cur) ==
    cur.exists /\ \E i \in 0..24 : readU64Throws(cur.data, 16 + i * 8)

\* the slot hash taken at its offset in the payload, the discriminator not
\* counted
slotHashOfPayload(data) == Slice(data, 208, 240)

\* prevRoundAccount.data.slice(slotHashOffset, slotHashOffset + 32)
slotHashOf(data) == Slice(data, 216, 248)

\* What the third handler answers from the Board account, the slot, the
\* current Round account and the previous Round account it fetched; the
\* previous round's account gives last_winning_square.
GET3Reply(slot, boardAcc, cur, prev) ==
    IF ~boardAcc.exists THEN ErrorResponse(3, "Board account not found")
    ELSE LET boardData == boardAcc.data
         IN IF \E o \in {8, 16, 24} : readU64Throws(boardData, o)
            THEN ErrorResponse(3, "TypeError")
            ELSE LET roundId   == Number(readU64(boardData, 8))
                     prevHash  == slotHashOf(prev.data)
                 IN IF cur.exists
                       /\ \E i \in 0..24 : readU64Throws(cur.data, 16 + i * 8)
                    THEN ErrorResponse(3, "TypeError")
                    ELSE IF prev.exists /\ calculateWinningSquareThrows(prevHash)
                    THEN ErrorResponse(3, "TypeError")
                    ELSE BoardSummary(3, roundId,
                             Number(readU64(boardData, 16)),
                             Number(readU64(boardData, 24)),
                             slot,
                             IF cur.exists
                             THEN [i \in 1..25 |->
                                      Number(readU64(cur.data, 16 + (i - 1) * 8))]
                             ELSE [i \in 1..25 |-> 0],
                             IF prev.exists THEN calculateWinningSquare(prevHash)
                             ELSE Null,
                             IF prev.exists THEN roundId - 1 ELSE Null)

GET3Response(slot, boardAcc) ==
    GET3Reply(slot, boardAcc,
              IF GET3BoardDecodes(boardAcc)
              THEN getRoundAccount(GET3RoundId(boardAcc)) ELSE NoAccount,
              IF GET3BoardDecodes(boardAcc) /\ GET3RoundId(boardAcc) > 1
              THEN getRoundAccount(GET3RoundId(boardAcc) - 1) ELSE NoAccount)

----------------------------------------------------------------------------
(* Program-derived addresses: the seeds handed to findProgramAddressSync *)

\* Buffer.from('board') and Buffer.from('round')
BoardSeedBytes == <<98, 111, 97, 114, 100>>

RoundSeedBytes == <<114, 111, 117, 110, 100>>

\* The seeds of the Board address, the same at the three places
getBoardPda == <<BoardSeedBytes>>

\* Bit k (0 the least significant) of a u64 bigint
BitOf(value, k) == (value[(k \div 8) + 1] \div (2 ^ (k % 8))) % 2

\* Number(value) of a u64 bigint, as the bits 0..64 of the integer the double
\* holds: the nearest value with a 53-bit significand, ties to even.  Exact
\* below 2^53; from 2^64 - 1024 on it is 2^64 (bit 64).
NumberBits(value) ==
    LET ones == {k \in 0..63 : BitOf(value, k) = 1}
    IN IF \A k \in ones : k <= 52
       THEN [k \in 0..64 |-> IF k < 64 THEN BitOf(value, k) ELSE 0]
       ELSE LET top      == CHOOSE k \in ones : \A j \in ones : j <= k
                s        == top - 52
                roundUp  == /\ BitOf(value, s - 1) = 1
                            /\ \/ BitOf(value, s) = 1
                               \/ \E j \in 0..(s - 2) : BitOf(value, j) = 1
                carry(k) == roundUp /\ \A j \in s..(k - 1) : BitOf(value, j) = 1
            IN [k \in 0..64 |->
                   IF k < s THEN 0
                   ELSE IF k = 64 THEN (IF carry(64) THEN 1 ELSE 0)
                   ELSE (BitOf(value, k) + (IF carry(k) THEN 1 ELSE 0)) % 2]

\* BigInt(Number(value)): nine digits, the ninth for 2^64
BigIntOfNumber(value) ==
    LET b     == NumberBits(value)
        at(k) == IF k <= 64 THEN b[k] ELSE 0
    IN [i \in 1..9 |->
           LET o == 8 * (i - 1)
           IN at(o) + 2 * at(o + 1) + 4 * at(o + 2) + 8 * at(o + 3)
                    + 16 * at(o + 4) + 32 * at(o + 5) + 64 * at(o + 6)
                    + 128 * at(o + 7)]

\* Buffer.writeBigUInt64LE(x) throws a RangeError for x >= 2^64
writeBigUInt64LEThrows(x) == \E i \in 9..Len(x) : x[i] # 0

writeBigUInt64LE(x) == SubSeq(x, 1, 8)

\* new BigUint64Array([x]).buffer: x modulo 2^64, in the byte order of
\* the platform
BigUint64ArrayBuffer(x, littleEndian) ==
    IF littleEndian THEN SubSeq(x, 1, 8) ELSE [i \in 1..8 |-> x[9 - i]]

\* The first handler keeps the round id a bigint (board.roundId).
getRoundPda(roundId) == <<RoundSeedBytes, writeBigUInt64LE(roundId)>>

\* The second handler: roundId = Number(value), BigInt(roundId)
roundPda(value, littleEndian) ==
    <<RoundSeedBytes, BigUint64ArrayBuffer(BigIntOfNumber(value), littleEndian)>>

\* The third handler: roundId = Number(value), BigInt(roundId)
currentRoundPdaThrows(value) == writeBigUInt64LEThrows(BigIntOfNumber(value))

currentRoundPda(value) ==
    <<RoundSeedBytes, writeBigUInt64LE(BigIntOfNumber(value))>>

----------------------------------------------------------------------------
(* Account bytes: the layout the on-chain program writes *)

\* Buffer.writeBigUInt64LE: the eight little-endian digits of n
RECURSIVE Digit(_, _)
Digit(n, i) == IF i = 1 THEN n % 256 ELSE Digit(n \div 256, i - 1)

LE8(n) == [i \in 1..8 |-> Digit(n, i)]

\* The 8-byte discriminator that prefixes every account
Discriminator == [i \in 1..8 |-> 200 + i]

EncodeBoard(b) ==
    Discriminator \o LE8(b.round_id) \o LE8(b.start_slot)
                  \o LE8(b.end_slot) \o LE8(b.epoch_id)

RECURSIVE ConcatLE8(_, _)
ConcatLE8(q, k) == IF k = 0 THEN <<>> ELSE ConcatLE8(q, k - 1) \o LE8(q[k])

\* The fields of a Round in the order of the "Round struct layout", packed
\* after the discriminator
EncodeRound(r) ==
    Discriminator \o LE8(r.id) \o ConcatLE8(r.deployed, 25) \o r.randomness
                  \o ConcatLE8(r.count, 25) \o LE8(r.expires_at)
                  \o LE8(r.jackpot_pool) \o r.rent_payer \o r.top_depositor
                  \o LE8(r.top_depositor_reward) \o LE8(r.total_deployed)
                  \o LE8(r.total_depositors) \o LE8(r.total_vaulted)
                  \o LE8(r.total_winnings)

\* Length of a Round account: discriminator and the thirteen fields
RoundRawLen == 568

\* The shortest accounts the first handler decodes: the discriminator and
\* the bytes up to the end of the last field read (epoch_id; totalVaulted)
BoardMinRawLen == 40

RoundMinRawLen == 560

\* bytes cut to n bytes, or padded to n bytes
Resize(bytes, n) ==
    [i \in 1..n |-> IF i <= Len(bytes) THEN bytes[i] ELSE 170]

----------------------------------------------------------------------------
(* Inputs *)

MaxWordPat == 3

MaxSeed == 1

MaxSlot == 3

MaxCut == 2

MaxIdByte == 3

\* Slots from the start of a round to its end
RoundSlots == 2

Zero8 == [i \in 1..8 |-> 0]

Ones8 == [i \in 1..8 |-> 255]

\* 8-byte words of a randomness field: zero, all 0xFF, the word 5, and
\* words with every byte set
WordPat(k) ==
    CASE k = 0 -> Zero8
      [] k = 1 -> Ones8
      [] k = 2 -> LE8(5)
      [] OTHER -> [i \in 1..8 |-> (k * 29 * i + 7 * k + 128) % 256]

HashOf(a, b, c, d) == WordPat(a) \o WordPat(b) \o WordPat(c) \o WordPat(d)

HashInputs == {HashOf(a, b, c, d) : a, b, c, d \in 0..MaxWordPat}

ZeroHash == HashOf(0, 0, 0, 0)

OnesHash == HashOf(1, 1, 1, 1)

FiveHash == HashOf(2, 0, 0, 0)

MixedHash == HashOf(3, 2, 1, 3)

FewHashes == {ZeroHash, OnesHash, FiveHash, MixedHash}

\* A Round with all field values distinct; seed 0 is a fresh round, and an
\* odd seed stores a total_deployed that is not the sum of deployed.
MkRound(s, h) ==
    LET dep == [i \in 1..25 |-> IF s = 0 THEN 0 ELSE s * 70001 + i * 300]
    IN [ id |-> s + 1,
         deployed |-> dep,
         randomness |-> h,
         count |-> [i \in 1..25 |-> IF s = 0 THEN 0 ELSE s + i],
         expires_at |-> 5000 + s,
         jackpot_pool |-> 900000 + s,
         rent_payer |-> [i \in 1..32 |-> (s * 3 + i) % 256],
         top_depositor |-> [i \in 1..32 |-> IF s = 0 THEN 0 ELSE (s * 7 + i * 5) % 256],
         top_depositor_reward |-> 1234 * s,
         total_deployed |-> SumSeq(dep, 25) + (s % 2),
         total_depositors |-> s * 11,
         total_vaulted |-> s * 100 + 1,
         total_winnings |-> s * 50 + 3 ]

MkBoard(id, start, end) ==
    [round_id |-> id, start_slot |-> start, end_slot |-> end, epoch_id |-> 7]

RoundIds == {1, 2}

RoundAccountInputs ==
    {NoAccount} \cup {Account(Resize(EncodeRound(MkRound(1, FiveHash)), n)) :
                        n \in {100, 230, 261}}
    \cup {Account(EncodeRound(MkRound(s, h))) : s \in 0..MaxSeed, h \in FewHashes}

\* The raw length the loop of the second handler reads of the buffer its
\* readU64 is closed over (offsets 8 + 8i, i up to 24)
BoardLoopReadLen == 208

\* A Board account with room after epoch_id (zero bytes)
LongBoard(b) ==
    [i \in 1..BoardLoopReadLen |->
        IF i <= Len(EncodeBoard(b)) THEN EncodeBoard(b)[i] ELSE 0]

BoardAccountInputs ==
    {NoAccount, Account(Resize(EncodeBoard(MkBoard(1, 1000, 1150)), 20)),
     Account(LongBoard(MkBoard(1, 1000, 1150)))}
    \cup {Account(EncodeBoard(MkBoard(id, 1000, 1150))) : id \in RoundIds}

SlotInputs == (0..(MaxSlot + 1)) \cup {1100, 1150, 1151}

SlotRangeInputs == ((0..MaxSlot) \X (0..MaxSlot)) \cup {<<1000, 1150>>}

\* Round ids over the u64 range: small ones, ones next to 2^53, 2^63 and
\* 2^64, as the eight bytes the Board account stores
RoundIdInputs ==
    { <<lo>> \o [i \in 1..5 |-> fill] \o top :
        lo \in 0..MaxIdByte, fill \in {0, 255},
        top \in {<<0, 0>>, <<31, 0>>, <<32, 0>>, <<0, 128>>, <<255, 255>>} }

DecodeRoundLengths ==
    {0, 8, 261, 262, RoundRawLen}
    \cup ((RoundMinRawLen - MaxCut)..(RoundMinRawLen + MaxCut))

DecodeBoardLengths ==
    {0, 8} \cup ((BoardMinRawLen - MaxCut)..(BoardMinRawLen + MaxCut))

----------------------------------------------------------------------------
(* Initial states *)

NoResp == [handler |-> 0, status |-> "none"]

NotCalled == [called |-> FALSE, value |-> Null]

NoSrc == [kind |-> "none"]

NoOut == [done |-> FALSE]

NoChain ==
    /\ currentSlot = 0
    /\ boardAccount = NoAccount
    /\ rounds = [id \in RoundIds |-> NoAccount]
    /\ resp = NoResp

NoDecoder == dSrc = NoSrc /\ dBuf = <<>> /\ dOut = NoOut

----------------------------------------------------------------------------
(* The test-20 page: twenty squares locked per round, judged on its result *)

SQUARE_COUNT == 20

AllSquares == 1..25

\* locks kept by the clean-up after a judged round
KeepLocked == 10

\* log entries kept by addLog before it appends
KeepLogs == 200

\* bounds: round ids the backend goes through, callbacks in flight together
MaxPageRound == 3
MaxPolls == 2

\* bound: the callbacks the interval starts in all
MaxFetches == 3

\* The five squares with the lowest scores, as /api/state makes them come out
ExcludedInputs == { 1..5, 21..25 }

\* winning_square columns of the rounds table (0: no square of the page)
WinnerInputs == {0, 3}

\* testSquares: the best SQUARE_COUNT squares of the 25, in ascending order
\* (an ascending array without repeats, held as the set of its elements)
testSquares(excluded) == AllSquares \ excluded

\* Map.set
MapSet(m, k, v) == [x \in (DOMAIN m) \cup {k} |-> IF x = k THEN v ELSE m[x]]

\* the clean-up of lockedSquaresRef: the n largest keys stay
keepLast(m, n) ==
    [x \in {k \in DOMAIN m : Cardinality({j \in DOMAIN m : j > k}) < n} |-> m[x]]

\* addLog: setLogs(prev => [...prev.slice(-200), entry]), for the entries of
\* a lock, of a judged result and of a result that was not tracked
addLog(logs, entry) ==
    LET n == Len(logs)
        kept == IF n > KeepLogs THEN SubSeq(logs, n - KeepLogs + 1, n) ELSE logs
    IN  Append(kept, entry)

\* toFixed(1) of a percentage, in tenths of a percent
winRate(wins, total) == (2000 * wins + total) \div (2 * total)

NoStats == [wins |-> 0, losses |-> 0, total |-> 0, winRate |-> 0]

NoLastWinner == [present |-> FALSE, round_id |-> 0, winning_square |-> 0]

\* The page as resetStats leaves it, before any round was seen
FreshPage ==
    [ currentRound |-> 0, currentRoundRef |-> 0, recommendedSquares |-> {},
      stats |-> NoStats, lastWinner |-> NoLastWinner, connected |-> FALSE,
      lockedSquares |-> <<>>, processedResults |-> {}, logs |-> <<>> ]

\* resetStats: the stats, both refs and the logs; the current round stays
resetStats(p) ==
    [p EXCEPT !.stats = NoStats, !.processedResults = {},
              !.lockedSquares = <<>>, !.logs = <<>>]

\* fetchData from the answer of /api/state to the fetch of /api/results
lockRound(p, current_round, excluded) ==
    LET squares == testSquares(excluded)
        roundId == current_round
        shown == [p EXCEPT !.recommendedSquares = squares, !.connected = TRUE]
    IN  IF roundId > 0 /\ roundId # p.currentRoundRef
        THEN [shown EXCEPT
                 !.lockedSquares = MapSet(@, roundId, squares),
                 !.currentRound = roundId,
                 !.logs = addLog(@, [kind |-> "locked", round |-> roundId,
                                     squares |-> squares])]
        ELSE shown

\* setStats(prev => ...) of a hit and of a miss
statsAfter(prev, hit) ==
    IF hit
    THEN [wins |-> prev.wins + 1, losses |-> prev.losses,
          total |-> prev.total + 1,
          winRate |-> winRate(prev.wins + 1, prev.total + 1)]
    ELSE [wins |-> prev.wins, losses |-> prev.losses + 1,
          total |-> prev.total + 1,
          winRate |-> winRate(prev.wins, prev.total + 1)]

\* The judging of a result with the round never marked as processed
judgeResultUnmarked(p, last_winner) ==
    IF ~last_winner.present \/ last_winner.winning_square <= 0
       \/ last_winner.round_id \notin DOMAIN p.lockedSquares
    THEN p
    ELSE LET lockedForRound == p.lockedSquares[last_winner.round_id]
             hit == last_winner.winning_square \in lockedForRound
         IN  [p EXCEPT
                !.lastWinner = last_winner,
                !.stats = statsAfter(@, hit),
                !.logs = addLog(@, [kind |-> IF hit THEN "win" ELSE "loss",
                                    round |-> last_winner.round_id,
                                    squares |-> lockedForRound])]

\* fetchData from the answer of /api/results to its end
judgeResult(p, last_winner) ==
    IF ~last_winner.present
    THEN p
    ELSE LET rid == last_winner.round_id
             winningSquare == last_winner.winning_square
         IN  IF rid \in p.processedResults \/ ~(winningSquare > 0)
             THEN p
             ELSE IF /\ rid \in DOMAIN p.lockedSquares
                     /\ Cardinality(p.lockedSquares[rid]) = SQUARE_COUNT
                  THEN LET lockedForRound == p.lockedSquares[rid]
                           hit == winningSquare \in lockedForRound
                           excluded == AllSquares \ lockedForRound
                           judged ==
                             [p EXCEPT
                                !.processedResults = @ \cup {rid},
                                !.lastWinner = last_winner,
                                !.stats = statsAfter(@, hit),
                                !.logs = addLog(@,
                                   [kind |-> IF hit THEN "win" ELSE "loss",
                                    round |-> rid,
                                    squares |-> IF hit THEN lockedForRound
                                                ELSE excluded])]
                       IN  IF Cardinality(DOMAIN judged.lockedSquares) > KeepLocked
                           THEN [judged EXCEPT
                                    !.lockedSquares = keepLast(@, KeepLocked)]
                           ELSE judged
                  ELSE [p EXCEPT
                           !.processedResults = @ \cup {rid},
                           !.logs = addLog(@, [kind |-> "untracked",
                                               round |-> rid, squares |-> {}])]

\* /api/results: the row of the rounds table with the largest round_id among
\* those whose winning_square is not null
lastWinnerOf(winners) ==
    IF DOMAIN winners = {}
    THEN NoLastWinner
    ELSE LET rid == CHOOSE r \in DOMAIN winners : \A q \in DOMAIN winners : q <= r
         IN  [present |-> TRUE, round_id |-> rid, winning_square |-> winners[rid]]

\* no callback in flight, none started yet
NoPolls == [started |-> 0, state |-> 0, results |-> 0]

NoBackend == [current_round |-> 0, winners |-> <<>>]

----------------------------------------------------------------------------
(* RoundTimer: a countdown shown between two updates of the round *)

\* Times are counted in half seconds, instants in steps of 500 ms
OneSecond == 2

StepMs == 500

\* roundDuration = 60, the default of the prop
DefaultRoundDuration == 60 * OneSecond

\* bound: the instants the clock goes through
MaxNow == 4

undefined == [defined |-> FALSE, value |-> 0]

Some(v) == [defined |-> TRUE, value |-> v]

\* timeRemaining props: none, a past end, zero, half a second, two seconds
TimeRemainingInputs == {undefined, Some(-2 * OneSecond), Some(0), Some(1),
                        Some(2 * OneSecond)}

\* roundDuration props: none, three seconds
RoundDurationInputs == {undefined, Some(3 * OneSecond)}

\* updatedAt props: none, the first instant, the fourth
UpdatedAtInputs == {undefined, Some(0), Some(3)}

TimerProps == [timeRemaining : TimeRemainingInputs,
               roundDuration : RoundDurationInputs,
               updatedAt : UpdatedAtInputs]

\* roundDuration with its default
roundDurationOf(props) ==
    IF props.roundDuration.defined THEN props.roundDuration.value
    ELSE DefaultRoundDuration

\* useState(timeRemaining || 0)
initialDisplayTime(props) ==
    IF props.timeRemaining.defined THEN props.timeRemaining.value ELSE 0

\* Math.floor((now - updateTime) / 1000), in seconds
elapsedSecs(now, updateTime) == ((now - updateTime) * StepMs) \div 1000

\* adjustedTime of the effect, for a timeRemaining that is not undefined
adjustedTime(props, now) ==
    IF props.updatedAt.defined
    THEN Max(0, props.timeRemaining.value
                - elapsedSecs(now, props.updatedAt.value) * OneSecond)
    ELSE props.timeRemaining.value

\* the updater of the interval
tick(prev, roundDuration) ==
    IF prev <= 0 THEN roundDuration ELSE prev - OneSecond

\* no RoundTimer rendered
NoTimer ==
    [ props |-> [timeRemaining |-> undefined, roundDuration |-> undefined,
                 updatedAt |-> undefined],
      displayTime |-> 0, effectPending |-> FALSE, interval |-> FALSE,
      now |-> 0 ]

\* no page open, no timer mounted
NoUi ==
    /\ page = FreshPage
    /\ polls = NoPolls
    /\ backend = NoBackend
    /\ timer = NoTimer

----------------------------------------------------------------------------
NoPda == [roundId |-> <<>>, littleEndian |-> TRUE]

NotDerived == [done |-> FALSE]

NoRun == [pc |-> "idle"]

\* no address derived, no handler between awaits
NoHarness == pda = NoPda /\ run = NoRun /\ seen = {}

NoWinner == slotHash = <<>> /\ winner = NotCalled

\* The chain with a variety of Board and Round accounts
InitAccounts ==
    /\ currentSlot \in {1100, 1150, 1151}
    /\ boardAccount \in BoardAccountInputs
    /\ rounds \in [RoundIds -> RoundAccountInputs]

\* The chain with a variety of slots and slot ranges
InitSlots ==
    /\ currentSlot \in SlotInputs
    /\ \E se \in SlotRangeInputs :
          boardAccount = Account(EncodeBoard(MkBoard(2, se[1], se[2])))
    /\ \E cur \in {NoAccount, Account(EncodeRound(MkRound(2, ZeroHash)))} :
          rounds = [id \in RoundIds |->
                       IF id = 2 THEN cur
                       ELSE Account(EncodeRound(MkRound(1, FiveHash)))]

\* The chain with a variety of randomness fields, in rounds 1 and 2
InitHashes ==
    /\ currentSlot \in {1149, 1150}
    /\ boardAccount = Account(EncodeBoard(MkBoard(2, 1000, 1150)))
    /\ \E h \in HashInputs :
          rounds = [id \in RoundIds |-> Account(EncodeRound(MkRound(id, h)))]

Init ==
    /\ InitAccounts \/ InitSlots \/ InitHashes
    /\ resp = NoResp
    /\ NoWinner
    /\ NoDecoder
    /\ NoHarness
    /\ NoUi

\* The chain in round 1, in its first slots or at its end
InitAsync ==
    /\ currentSlot \in 0..RoundSlots
    /\ boardAccount = Account(EncodeBoard(MkBoard(1, 0, RoundSlots)))
    /\ rounds = [id \in RoundIds |->
                    IF id = 1
                    THEN Account(EncodeRound([MkRound(1, ZeroHash) EXCEPT !.id = 1]))
                    ELSE NoAccount]
    /\ resp = NoResp
    /\ NoWinner
    /\ NoDecoder
    /\ NoHarness
    /\ NoUi

\* A round id on the Board and the byte order of the platform
InitPda ==
    /\ \E r \in RoundIdInputs, le \in BOOLEAN :
          pda = [ roundId |-> r, littleEndian |-> le, first |-> NotDerived,
                  second |-> NotDerived, third |-> NotDerived ]
    /\ run = NoRun
    /\ seen = {}
    /\ NoChain
    /\ NoWinner
    /\ NoDecoder
    /\ NoUi

InitWinner ==
    /\ slotHash \in HashInputs
    /\ winner = NotCalled
    /\ NoChain
    /\ NoDecoder
    /\ NoHarness
    /\ NoUi

InitDecode ==
    /\ \/ \E s \in 0..MaxSeed, h \in {FiveHash, MixedHash}, n \in DecodeRoundLengths :
             /\ dSrc = [kind |-> "round", rec |-> MkRound(s, h)]
             /\ dBuf = Resize(EncodeRound(MkRound(s, h)), n)
       \/ \E id \in RoundIds, se \in SlotRangeInputs, n \in DecodeBoardLengths :
             /\ dSrc = [kind |-> "board", rec |-> MkBoard(id, se[1], se[2])]
             /\ dBuf = Resize(EncodeBoard(MkBoard(id, se[1], se[2])), n)
    /\ dOut = NoOut
    /\ NoChain
    /\ NoWinner
    /\ NoHarness
    /\ NoUi

\* The page just opened, or just reset: nothing seen, nothing judged
InitPage ==
    /\ page = FreshPage
    /\ polls = NoPolls
    /\ backend = [current_round |-> 1, winners |-> <<>>]
    /\ timer = NoTimer
    /\ NoChain
    /\ NoWinner
    /\ NoDecoder
    /\ NoHarness

\* A RoundTimer rendered for the first time, its effect yet to run
InitTimer ==
    /\ \E props \in TimerProps :
          timer = [ props |-> props, displayTime |-> initialDisplayTime(props),
                    effectPending |-> TRUE, interval |-> FALSE, now |-> 0 ]
    /\ page = FreshPage
    /\ polls = NoPolls
    /\ backend = NoBackend
    /\ NoChain
    /\ NoWinner
    /\ NoDecoder
    /\ NoHarness

----------------------------------------------------------------------------
(* Operations *)

chainVars == <<currentSlot, boardAccount, rounds>>

\* A state of the chain
Snapshot(slot, board, rnds) == [slot |-> slot, board |-> board, rounds |-> rnds]

\* A handler is between two awaits
Running == run.pc \notin {"idle", "done"}

\* A handler awaits getSlot and getAccountInfo; here the chain does not change
\* while a handler runs, so each handler is one step on the values it fetched.

GET1 ==
    /\ resp' = GET1Response(currentSlot, boardAccount)
    /\ UNCHANGED <<uiVars, chainVars, slotHash, winner, dSrc, dBuf, dOut, pda, run, seen>>

GET2 ==
    /\ resp' = GET2Response(currentSlot, boardAccount)
    /\ UNCHANGED <<uiVars, chainVars, slotHash, winner, dSrc, dBuf, dOut, pda, run, seen>>

GET3 ==
    /\ resp' = GET3Response(currentSlot, boardAccount)
    /\ UNCHANGED <<uiVars, chainVars, slotHash, winner, dSrc, dBuf, dOut, pda, run, seen>>

\* The chain moves on to the next slot between two requests; the slot that
\* connection.getSlot() returns never decreases.
AdvanceSlot ==
    /\ currentSlot + 1 \in SlotInputs \cup {1150, 1151}
    /\ currentSlot' = currentSlot + 1
    /\ seen' = IF Running
               THEN seen \cup {Snapshot(currentSlot + 1, boardAccount, rounds)}
               ELSE seen
    /\ UNCHANGED <<uiVars, boardAccount, rounds, resp, slotHash, winner,
                   dSrc, dBuf, dOut, pda, run>>

\* The on-chain program ends the round that is over and starts the next one:
\* the ended round gets its slot hash, the next round a fresh account, and
\* the Board the next id and slot range.
NewRound ==
    /\ GET1BoardDecodes(boardAccount)
    /\ LET board  == parseBoard(Slice(boardAccount.data, 8, Len(boardAccount.data)))
           id     == Number(board.round_id)
           ended  == [i \in 1..Len(rounds[id].data) |->
                        IF i \in 217..248 THEN FiveHash[i - 216]
                        ELSE rounds[id].data[i]]
           nextBoard  == Account(EncodeBoard(
                             MkBoard(id + 1, currentSlot, currentSlot + RoundSlots)))
           nextRounds == [rounds EXCEPT
                             ![id] = Account(ended),
                             ![id + 1] = Account(EncodeRound(
                                 [MkRound(0, ZeroHash) EXCEPT !.id = id + 1]))]
       IN /\ currentSlot >= Number(board.end_slot)
          /\ id \in RoundIds
          /\ id + 1 \in RoundIds
          /\ rounds[id].exists
          /\ boardAccount' = nextBoard
          /\ rounds' = nextRounds
          /\ seen' = IF Running
                     THEN seen \cup {Snapshot(currentSlot, nextBoard, nextRounds)}
                     ELSE seen
    /\ UNCHANGED <<uiVars, currentSlot, resp, slotHash, winner, dSrc, dBuf, dOut, pda, run>>

\* The first handler, await by await: getSlot, getAccountInfo(boardPda),
\* getAccountInfo(roundPda)
GET1_getSlot ==
    /\ run.pc = "idle"
    /\ run' = [ pc |-> "getBoard", handler |-> 1, slot |-> currentSlot,
                board |-> NoAccount, cur |-> NoAccount ]
    /\ seen' = {Snapshot(currentSlot, boardAccount, rounds)}
    /\ UNCHANGED <<uiVars, chainVars, resp, slotHash, winner, dSrc, dBuf, dOut, pda>>

GET1_getBoard ==
    /\ run.pc = "getBoard"
    /\ run.handler = 1
    /\ IF GET1BoardDecodes(boardAccount)
       THEN /\ run' = [run EXCEPT !.pc = "getRound", !.board = boardAccount]
            /\ resp' = resp
       ELSE /\ run' = [run EXCEPT !.pc = "done", !.board = boardAccount]
            /\ resp' = GET1Reply(run.slot, boardAccount, NoAccount)
    /\ UNCHANGED <<uiVars, chainVars, slotHash, winner, dSrc, dBuf, dOut, pda, seen>>

GET1_getRound ==
    /\ run.pc = "getRound"
    /\ run.handler = 1
    /\ run' = [run EXCEPT !.pc = "done", !.cur = GET1RoundAccount(run.board)]
    /\ resp' = GET1Reply(run.slot, run.board, GET1RoundAccount(run.board))
    /\ UNCHANGED <<uiVars, chainVars, slotHash, winner, dSrc, dBuf, dOut, pda, seen>>

\* The third handler, await by await: getAccountInfo(boardPda), getSlot,
\* getAccountInfo(currentRoundPda), getAccountInfo(prevRoundPda)
GET3_getBoard ==
    /\ run.pc = "idle"
    /\ IF GET3BoardDecodes(boardAccount)
       THEN /\ run' = [ pc |-> "getSlot", handler |-> 3, slot |-> Null,
                        board |-> boardAccount, cur |-> NoAccount ]
            /\ resp' = resp
       ELSE /\ run' = [ pc |-> "done", handler |-> 3, slot |-> Null,
                        board |-> boardAccount, cur |-> NoAccount ]
            /\ resp' = GET3Reply(Null, boardAccount, NoAccount, NoAccount)
    /\ seen' = {Snapshot(currentSlot, boardAccount, rounds)}
    /\ UNCHANGED <<uiVars, chainVars, slotHash, winner, dSrc, dBuf, dOut, pda>>

GET3_getSlot ==
    /\ run.pc = "getSlot"
    /\ run.handler = 3
    /\ run' = [run EXCEPT !.pc = "getRound", !.slot = currentSlot]
    /\ UNCHANGED <<uiVars, chainVars, resp, slotHash, winner, dSrc, dBuf, dOut, pda, seen>>

GET3_getRound ==
    /\ run.pc = "getRound"
    /\ run.handler = 3
    /\ LET cur == getRoundAccount(GET3RoundId(run.board))
       IN IF GET3DeployedThrows(cur) \/ ~(GET3RoundId(run.board) > 1)
          THEN /\ run' = [run EXCEPT !.pc = "done", !.cur = cur]
               /\ resp' = GET3Reply(run.slot, run.board, cur, NoAccount)
          ELSE /\ run' = [run EXCEPT !.pc = "getPrevRound", !.cur = cur]
               /\ resp' = resp
    /\ UNCHANGED <<uiVars, chainVars, slotHash, winner, dSrc, dBuf, dOut, pda, seen>>

GET3_getPrevRound ==
    /\ run.pc = "getPrevRound"
    /\ run.handler = 3
    /\ run' = [run EXCEPT !.pc = "done"]
    /\ resp' = GET3Reply(run.slot, run.board, run.cur,
                         getRoundAccount(GET3RoundId(run.board) - 1))
    /\ UNCHANGED <<uiVars, chainVars, slotHash, winner, dSrc, dBuf, dOut, pda, seen>>

CalculateWinningSquare ==
    /\ ~winner.called
    /\ winner' = [called |-> TRUE, value |-> calculateWinningSquare(slotHash)]
    /\ UNCHANGED <<uiVars, chainVars, resp, slotHash, dSrc, dBuf, dOut, pda, run, seen>>

\* parseBoard(account.data.slice(8))
ParseBoard ==
    /\ dSrc.kind = "board"
    /\ ~dOut.done
    /\ LET data == Slice(dBuf, 8, Len(dBuf))
       IN dOut' = [ done  |-> TRUE,
                    threw |-> parseBoardThrows(data),
                    reads |-> ReadsCompleted(data, BoardReadOffsets, 1),
                    rec   |-> IF parseBoardThrows(data) THEN <<>>
                              ELSE parseBoard(data) ]
    /\ UNCHANGED <<uiVars, chainVars, resp, slotHash, winner, dSrc, dBuf,
                   pda, run, seen>>

\* parseRound(account.data.slice(8))
ParseRound ==
    /\ dSrc.kind = "round"
    /\ ~dOut.done
    /\ LET data == Slice(dBuf, 8, Len(dBuf))
       IN dOut' = [ done  |-> TRUE,
                    threw |-> parseRoundThrows(data),
                    reads |-> ReadsCompleted(data, RoundReadOffsets, 1),
                    rec   |-> IF parseRoundThrows(data) THEN <<>>
                              ELSE parseRound(data) ]
    /\ UNCHANGED <<uiVars, chainVars, resp, slotHash, winner, dSrc, dBuf,
                   pda, run, seen>>

\* The three places that derive the address of the round account of the
\* id the Board holds
GetRoundPda ==
    /\ pda # NoPda
    /\ ~pda.first.done
    /\ pda' = [pda EXCEPT !.first =
                  [done |-> TRUE, threw |-> FALSE, seeds |-> getRoundPda(pda.roundId)]]
    /\ UNCHANGED <<uiVars, chainVars, resp, slotHash, winner, dSrc, dBuf, dOut, run, seen>>

RoundPda ==
    /\ pda # NoPda
    /\ ~pda.second.done
    /\ pda' = [pda EXCEPT !.second =
                  [done |-> TRUE, threw |-> FALSE,
                   seeds |-> roundPda(pda.roundId, pda.littleEndian)]]
    /\ UNCHANGED <<uiVars, chainVars, resp, slotHash, winner, dSrc, dBuf, dOut, run, seen>>

CurrentRoundPda ==
    /\ pda # NoPda
    /\ ~pda.third.done
    /\ pda' = [pda EXCEPT !.third =
                  [done |-> TRUE, threw |-> currentRoundPdaThrows(pda.roundId),
                   seeds |-> IF currentRoundPdaThrows(pda.roundId) THEN <<>>
                             ELSE currentRoundPda(pda.roundId)]]
    /\ UNCHANGED <<uiVars, chainVars, resp, slotHash, winner, dSrc, dBuf, dOut, run, seen>>

\* setInterval(fetchData, 3000), and the call on mount: a callback starts
\* and awaits /api/state, whether or not an earlier one has finished
FetchData ==
    /\ polls.state + polls.results < MaxPolls
    /\ polls.started < MaxFetches
    /\ polls' = [polls EXCEPT !.started = @ + 1, !.state = @ + 1]
    /\ UNCHANGED <<chainVars, resp, slotHash, winner, dSrc, dBuf, dOut, pda, run, seen,
                   page, backend, timer>>

\* /api/state answers a callback: it scores the squares, locks the twenty
\* best for a round id other than currentRoundRef, and awaits /api/results
FetchData_state ==
    /\ polls.state > 0
    /\ \E excluded \in ExcludedInputs :
          page' = lockRound(page, backend.current_round, excluded)
    /\ polls' = [polls EXCEPT !.state = @ - 1, !.results = @ + 1]
    /\ UNCHANGED <<chainVars, resp, slotHash, winner, dSrc, dBuf, dOut, pda, run, seen,
                   backend, timer>>

\* /api/results answers a callback: it judges last_winner and returns
FetchData_results ==
    /\ polls.results > 0
    /\ page' = judgeResult(page, lastWinnerOf(backend.winners))
    /\ polls' = [polls EXCEPT !.results = @ - 1]
    /\ UNCHANGED <<chainVars, resp, slotHash, winner, dSrc, dBuf, dOut, pda, run, seen,
                   backend, timer>>

\* A response that is not ok ends the callback where it is
FetchData_notOk ==
    /\ \/ /\ polls.state > 0
          /\ polls' = [polls EXCEPT !.state = @ - 1]
       \/ /\ polls.results > 0
          /\ polls' = [polls EXCEPT !.results = @ - 1]
    /\ UNCHANGED <<chainVars, resp, slotHash, winner, dSrc, dBuf, dOut, pda, run, seen,
                   page, backend, timer>>

\* useEffect(() => { currentRoundRef.current = currentRound }, [currentRound]):
\* the ref follows the state once the page has rendered again
SyncCurrentRoundRef ==
    /\ page.currentRoundRef # page.currentRound
    /\ page' = [page EXCEPT !.currentRoundRef = page.currentRound]
    /\ UNCHANGED <<chainVars, resp, slotHash, winner, dSrc, dBuf, dOut, pda, run, seen,
                   polls, backend, timer>>

\* The reset button
ResetStats ==
    /\ page # resetStats(page)
    /\ page' = resetStats(page)
    /\ UNCHANGED <<chainVars, resp, slotHash, winner, dSrc, dBuf, dOut, pda, run, seen,
                   polls, backend, timer>>

\* The backend: the next round starts
RoundStarts ==
    /\ backend.current_round < MaxPageRound
    /\ backend' = [backend EXCEPT !.current_round = @ + 1]
    /\ UNCHANGED <<chainVars, resp, slotHash, winner, dSrc, dBuf, dOut, pda, run, seen,
                   page, polls, timer>>

\* The backend: a round that has ended, later than those that have a
\* winning_square already, gets its own
RoundCompletes ==
    /\ \E rid \in 1..(backend.current_round - 1), w \in WinnerInputs :
          /\ \A done \in DOMAIN backend.winners : done < rid
          /\ backend' = [backend EXCEPT !.winners = MapSet(@, rid, w)]
    /\ UNCHANGED <<chainVars, resp, slotHash, winner, dSrc, dBuf, dOut, pda, run, seen,
                   page, polls, timer>>

\* The effect of RoundTimer after a render with new props: the interval of
\* the render before is cleared, displayTime is set and an interval started,
\* unless timeRemaining is undefined
RoundTimer_effect ==
    /\ timer.effectPending
    /\ timer' =
         IF ~timer.props.timeRemaining.defined
         THEN [timer EXCEPT !.effectPending = FALSE, !.interval = FALSE]
         ELSE [timer EXCEPT !.effectPending = FALSE, !.interval = TRUE,
                            !.displayTime = adjustedTime(timer.props, timer.now)]
    /\ UNCHANGED <<chainVars, resp, slotHash, winner, dSrc, dBuf, dOut, pda, run, seen,
                   page, polls, backend>>

\* The interval fires, a second after the last time
RoundTimer_tick ==
    /\ timer.interval
    /\ timer' = [timer EXCEPT
                    !.displayTime = tick(@, roundDurationOf(timer.props))]
    /\ UNCHANGED <<chainVars, resp, slotHash, winner, dSrc, dBuf, dOut, pda, run, seen,
                   page, polls, backend>>

\* The parent renders RoundTimer with other props
RoundTimer_props ==
    /\ \E props \in TimerProps :
          /\ props # timer.props
          /\ timer' = [timer EXCEPT !.props = props, !.effectPending = TRUE]
    /\ UNCHANGED <<chainVars, resp, slotHash, winner, dSrc, dBuf, dOut, pda, run, seen,
                   page, polls, backend>>

\* Date.now() moves on
ClockAdvances ==
    /\ timer.now < MaxNow
    /\ timer' = [timer EXCEPT !.now = @ + 1]
    /\ UNCHANGED <<chainVars, resp, slotHash, winner, dSrc, dBuf, dOut, pda, run, seen,
                   page, polls, backend>>


Next == GET1 \/ GET2 \/ GET3

NextPda == GetRoundPda \/ RoundPda \/ CurrentRoundPda

\* Requests repeated while the chain advances
NextPoll == GET1 \/ GET2 \/ GET3 \/ AdvanceSlot

\* The handlers await by await, while the chain goes on
NextAsync ==
    \/ GET1_getSlot \/ GET1_getBoard \/ GET1_getRound
    \/ GET3_getBoard \/ GET3_getSlot \/ GET3_getRound \/ GET3_getPrevRound
    \/ AdvanceSlot \/ NewRound

NextWinner == CalculateWinningSquare

NextDecode == ParseBoard \/ ParseRound

Spec == Init /\ [][Next]_vars

SpecPoll == Init /\ [][NextPoll]_vars

SpecAsync == InitAsync /\ [][NextAsync]_vars

SpecPda == InitPda /\ [][NextPda]_vars

SpecWinner == InitWinner /\ [][NextWinner]_vars

SpecDecode == InitDecode /\ [][NextDecode]_vars

NextPage ==
    \/ FetchData \/ FetchData_state \/ FetchData_results \/ FetchData_notOk
    \/ SyncCurrentRoundRef \/ ResetStats \/ RoundStarts \/ RoundCompletes

NextTimer == RoundTimer_effect \/ RoundTimer_tick \/ RoundTimer_props \/ ClockAdvances

SpecPage == InitPage /\ [][NextPage]_vars

SpecTimer == InitTimer /\ [][NextTimer]_vars

----------------------------------------------------------------------------
(* Winner resolution as the specification states it, computed on bytes:     *)
(* r0..r3 are the words at offsets 0, 8, 16, 24; byte i of r0 XOR r1 XOR r2 *)
(* XOR r3 is the XOR of the four bytes at i, 8 + i, 16 + i, 24 + i; and the *)
(* word's value mod 25 is the sum of byte i times (256^i mod 25), mod 25.   *)

Bit(a, k) == (a \div (2 ^ k)) % 2

Xor4(a, b, c, d) ==
    LET par(k) == (Bit(a, k) + Bit(b, k) + Bit(c, k) + Bit(d, k)) % 2
    IN par(0) + 2 * par(1) + 4 * par(2) + 8 * par(3)
       + 16 * par(4) + 32 * par(5) + 64 * par(6) + 128 * par(7)

Pow256Mod25 == <<1, 6, 11, 16, 21, 1, 6, 11>>

RECURSIVE WeightedSum(_, _)
WeightedSum(h, i) ==
    IF i = 0 THEN 0
    ELSE Xor4(h[i], h[8 + i], h[16 + i], h[24 + i]) * Pow256Mod25[i]
         + WeightedSum(h, i - 1)

ExpectedSquare(h) == (WeightedSum(h, 8) % 25) + 1

IsSentinel(h) ==
    /\ Len(h) = 32
    /\ (\A i \in 1..32 : h[i] = 0) \/ (\A i \in 1..32 : h[i] = 255)

RandomnessFive ==
    <<5, 0, 0, 0, 0, 0, 0, 0,  0, 0, 0, 0, 0, 0, 0, 0,
      0, 0, 0, 0, 0, 0, 0, 0,  0, 0, 0, 0, 0, 0, 0, 0>>

\* The randomness field of round id's account on the chain: raw bytes
\* 216..247 (discriminator 8, id 8, deployed 200), as far as the account
\* has them
ChainRandomness(id) == Slice(rounds[id].data, 216, 248)

RespOk(h) == resp.handler = h /\ resp.status = "ok"

WinningSquares == {i \in 1..25 : resp.squares[i].is_winning}

\* C1: for every 32-byte randomness that is neither all-zero nor all-0xFF,
\* calculateWinningSquare returns ((r0 XOR r1 XOR r2 XOR r3) mod 25) + 1 for
\* the little-endian words r0..r3 at offsets 0, 8, 16, 24; the randomness
\* with r0 = 5, r1 = r2 = r3 = 0 resolves to square 6.
C1_WinnerIsXorMod25PlusOne ==
    (winner.called /\ ~IsSentinel(slotHash)) =>
        /\ winner.value = ExpectedSquare(slotHash)
        /\ (slotHash = RandomnessFive => winner.value = 6)

C1_Witness_FiveResolvesToSix ==
    winner.called /\ slotHash = RandomnessFive /\ winner.value = 6

\* C2: for the all-zero and the all-0xFF randomness the winner is
\* undetermined in every winner computation of the live route:
\* calculateWinningSquare (third handler, on the previous round) yields null
\* and the first handler marks no square winning.
C2_SentinelsUndetermined ==
    /\ (RespOk(3) /\ resp.last_round_id /= Null
          /\ IsSentinel(ChainRandomness(resp.last_round_id)))
       => resp.last_winning_square = Null
    /\ (RespOk(1) /\ IsSentinel(ChainRandomness(resp.round_id)))
       => WinningSquares = {}

\* C3: whenever winner resolution returns a value other than null it is a
\* square number in 1..25; the square the first handler marks winning has a
\* 0-based index in 0..24.
C3_WinnerInRange ==
    /\ (RespOk(3) /\ resp.last_winning_square /= Null)
       => resp.last_winning_square \in 1..25
    /\ RespOk(1) =>
          \A i \in WinningSquares :
              resp.squares[i].index \in 0..24 /\ resp.squares[i].square_num \in 1..25

C3_Witness_SquareReturned ==
    /\ RespOk(3)
    /\ resp.last_winning_square \in {1, 25}
    /\ ~IsSentinel(ChainRandomness(resp.last_round_id))

----------------------------------------------------------------------------
(* The packed layout of the Round data model: twelve fields, each at the    *)
(* sum of the widths of the fields before it.                               *)

SpecFields ==
    <<"id", "deployed", "randomness", "count", "expires_at", "jackpot_pool",
      "rent_payer", "top_depositor", "top_depositor_reward", "total_deployed",
      "total_depositors", "total_vaulted">>

\* The name parseRound gives each field in the record it returns
CodeFields ==
    <<"id", "deployed", "slotHash", "count", "expiresAt", "motherlode",
      "rentPayer", "topMiner", "topMinerReward", "totalDeployed",
      "totalMiners", "totalVaulted">>

FieldWidths == <<8, 200, 32, 200, 8, 8, 32, 32, 8, 8, 8, 8>>

RECURSIVE PackedOffset(_)
PackedOffset(k) == IF k = 1 THEN 0 ELSE PackedOffset(k - 1) + FieldWidths[k - 1]

RECURSIVE Flatten(_, _)
Flatten(q, n) == IF n = 0 THEN <<>> ELSE Flatten(q, n - 1) \o q[n]

\* The bytes a decoded field stands for (a bigint is its digits)
DecodedBytes(rec, k) ==
    IF FieldWidths[k] = 200 THEN Flatten(rec[CodeFields[k]], 25)
    ELSE rec[CodeFields[k]]

\* The value of a decoded field, as the data model has it
DecodedValue(rec, k) ==
    CASE FieldWidths[k] = 8   -> Number(rec[CodeFields[k]])
      [] FieldWidths[k] = 200 -> [i \in 1..25 |-> Number(rec[CodeFields[k]][i])]
      [] OTHER                -> rec[CodeFields[k]]

Payload == SubSeq(dBuf, 9, Len(dBuf))

PayloadBytes(k) ==
    SubSeq(Payload, PackedOffset(k) + 1, PackedOffset(k) + FieldWidths[k])

RoundDecoded == dOut.done /\ dSrc.kind = "round" /\ ~dOut.threw

\* expires_at and rent_payer
SkippedFields == {5, 7}

\* C4 (as claimed): the decoders check the length before reading any offset:
\* for a buffer shorter than the minimum the decode fails and no read was
\* made.
C4_LengthCheckedBeforeAnyRead ==
    (dOut.done /\ Len(dBuf) < (IF dSrc.kind = "round" THEN RoundMinRawLen
                               ELSE BoardMinRawLen))
    => (dOut.threw /\ dOut.reads = 0 /\ dOut.rec = <<>>)

\* C5 (as claimed): decode_round reads every one of the twelve fields at its
\* packed offset after the 8-byte discriminator.
C5_AllTwelveFieldsAtPackedOffsets ==
    RoundDecoded =>
        \A k \in 1..12 :
            /\ CodeFields[k] \in DOMAIN dOut.rec
            /\ DecodedBytes(dOut.rec, k) = PayloadBytes(k)

\* C5 (amended): parseRound reads each of the ten fields it returns at the
\* packed offset after the 8-byte discriminator, little-endian digit by
\* digit: id 0, deployed 8.., slot_hash 208..239, count 240.., motherlode
\* 448, top_miner 488..519, top_miner_reward 520, total_deployed 528,
\* total_miners 536, total_vaulted 544; it does not decode expires_at (440)
\* and rent_payer (456..487).
C5_TenFieldsAtPackedOffsets ==
    RoundDecoded =>
        /\ DOMAIN dOut.rec = {CodeFields[k] : k \in (1..12) \ SkippedFields}
        /\ \A k \in (1..12) \ SkippedFields :
               DecodedBytes(dOut.rec, k) = PayloadBytes(k)
        /\ <<PackedOffset(1), PackedOffset(2), PackedOffset(3), PackedOffset(4),
             PackedOffset(6), PackedOffset(8), PackedOffset(9), PackedOffset(10),
             PackedOffset(11), PackedOffset(12)>>
           = <<0, 8, 208, 240, 448, 488, 520, 528, 536, 544>>

C5_Witness_FullRoundDecoded ==
    /\ RoundDecoded
    /\ Len(dBuf) = RoundRawLen
    /\ Number(dOut.rec.totalVaulted) = 101
    /\ Number(dOut.rec.deployed[25]) = 77501

\* C6 (as claimed): decoding the encoding of a Round r yields r in every one
\* of the twelve fields.
C6_RoundTripAllTwelveFields ==
    (RoundDecoded /\ dBuf = EncodeRound(dSrc.rec)) =>
        \A k \in 1..12 :
            /\ CodeFields[k] \in DOMAIN dOut.rec
            /\ DecodedValue(dOut.rec, k) = dSrc.rec[SpecFields[k]]

\* C6 (amended): decoding the encoding of a Round r yields r in the ten
\* fields parseRound returns; expires_at and rent_payer are not in the
\* decoded record.
C6_RoundTripTenFields ==
    (RoundDecoded /\ dBuf = EncodeRound(dSrc.rec)) =>
        /\ \A k \in (1..12) \ SkippedFields :
               DecodedValue(dOut.rec, k) = dSrc.rec[SpecFields[k]]
        /\ \A k \in SkippedFields : CodeFields[k] \notin DOMAIN dOut.rec

C6_Witness_RoundTripped ==
    /\ RoundDecoded
    /\ dBuf = EncodeRound(dSrc.rec)
    /\ dSrc.rec.deployed[1] = 70301
    /\ Number(dOut.rec.deployed[1]) = 70301
    /\ dOut.rec.slotHash = MixedHash

----------------------------------------------------------------------------
(* Round timing *)

AnyRespOk == resp.status = "ok"

\* C8: in every handler slots_remaining is max(0, end_slot - current_slot):
\* end_slot - current_slot when current_slot < end_slot, 0 otherwise, never
\* negative.
C8_SlotsRemainingSaturates ==
    AnyRespOk =>
        /\ resp.slots_remaining >= 0
        /\ resp.current_slot = currentSlot
        /\ resp.slots_remaining =
               (IF resp.current_slot < resp.end_slot
                THEN resp.end_slot - resp.current_slot ELSE 0)

C8_Witness_PastTheEnd ==
    /\ AnyRespOk
    /\ resp.end_slot = 2 /\ resp.current_slot = 4
    /\ resp.slots_remaining = 0

\* C9: is_intermission is true exactly when current_slot >= end_slot, and
\* exactly when slots_remaining = 0.
C9_IntermissionIffNoSlotsLeft ==
    RespOk(1) =>
        /\ resp.is_intermission <=> (resp.current_slot >= resp.end_slot)
        /\ resp.is_intermission <=> (resp.slots_remaining = 0)

C9_Witness_AtEndSlot ==
    /\ RespOk(1)
    /\ resp.current_slot = resp.end_slot
    /\ resp.is_intermission
    /\ resp.slots_remaining = 0

\* x * (n / d) rounded to the nearest integer (a half rounds up)
RoundedProduct(x, n, d) == (2 * x * n + d) \div (2 * d)

\* C10 (as claimed): time_remaining_secs is slots_remaining times the unit
\* duration rounded to the nearest integer, for the duration each handler
\* uses (0.37 s in the first, 1 / 2.5 = 0.4 s in the second and third), and
\* a handler with 0.4 s gives 50 slots and 20 s, not in intermission, at
\* start 1000, end 1150, current 1100.
C10_SecondsAreRoundedProduct ==
    /\ RespOk(1) =>
          resp.time_remaining_secs = RoundedProduct(resp.slots_remaining, 37, 100)
    /\ (RespOk(2) \/ RespOk(3)) =>
          /\ resp.time_remaining_secs = RoundedProduct(resp.slots_remaining, 2, 5)
          /\ (resp.start_slot = 1000 /\ resp.end_slot = 1150
                /\ resp.current_slot = 1100)
             => (resp.slots_remaining = 50 /\ resp.time_remaining_secs = 20)


----------------------------------------------------------------------------
(* Timing across requests *)

\* C11: between two successive successful responses for the same slot range,
\* the later one (taken at a current slot that is not smaller) reports no
\* more slots remaining than the earlier one, and a response taken at or
\* after the end slot reports 0 slots remaining.
C11_SlotsRemainingMonotone ==
    [][ ( /\ resp.status = "ok"
          /\ resp'.status = "ok"
          /\ resp.start_slot = resp'.start_slot
          /\ resp.end_slot = resp'.end_slot
          /\ resp.current_slot <= resp'.current_slot )
        => /\ resp'.slots_remaining <= resp.slots_remaining
           /\ (resp'.current_slot >= resp'.end_slot
                  => resp'.slots_remaining = 0) ]_vars

\* A response with slots remaining was given and the chain has since moved
\* to the end slot or past it: the next request is the later one.
C11_Witness_ChainMovedPastEnd ==
    /\ resp.status = "ok"
    /\ resp.slots_remaining > 0
    /\ resp.current_slot < currentSlot
    /\ currentSlot >= resp.end_slot


----------------------------------------------------------------------------
(* The summary of the first handler against the accounts on the chain *)

\* The value of the 8-byte little-endian word at a raw offset of an account
\* (the values of the accounts here have their four high bytes zero)
WordAt(data, off) ==
    data[off + 1] + 256 * data[off + 2] + 65536 * data[off + 3]
                  + 16777216 * data[off + 4]

\* The Board account holds a decodable Board
ChainBoardDecodable == boardAccount.exists /\ Len(boardAccount.data) >= BoardMinRawLen

\* The Round account the Board points to
ChainRound == rounds[WordAt(boardAccount.data, 8)]

ChainRoundDecodable ==
    /\ ChainBoardDecodable
    /\ WordAt(boardAccount.data, 8) \in DOMAIN rounds
    /\ ChainRound.exists
    /\ Len(ChainRound.data) >= RoundMinRawLen

\* C12 (as claimed): when the Board on the chain has end_slot < start_slot, a
\* handler fails with InvalidSlotRange and returns no timing values.
C12_InvalidSlotRangeRejected ==
    ( /\ resp.handler # 0
      /\ ChainBoardDecodable
      /\ WordAt(boardAccount.data, 24) < WordAt(boardAccount.data, 16) )
    => /\ resp.status = "error"
       /\ resp.error = "InvalidSlotRange"

\* C13: the summary of the first handler has exactly 25 square entries in
\* order; entry i (1..25) has square_num i, the deployed amount stored for
\* square i in the Round account (raw offset 16 + 8(i-1)) and the depositor
\* count stored for it (raw offset 248 + 8(i-1)).
C13_TwentyFiveSquaresInOrder ==
    RespOk(1) =>
        /\ DOMAIN resp.squares = 1..25
        /\ \A i \in 1..25 :
              /\ resp.squares[i].square_num = i
              /\ resp.squares[i].deployed_lamports
                    = WordAt(ChainRound.data, 16 + 8 * (i - 1))
              /\ resp.squares[i].miner_count
                    = WordAt(ChainRound.data, 248 + 8 * (i - 1))

\* A summary of a round with distinct amounts and counts on every square
C13_Witness_DistinctSquares ==
    /\ RespOk(1)
    /\ resp.squares[1].deployed_lamports = 70301
    /\ resp.squares[25].deployed_lamports = 77501
    /\ resp.squares[1].miner_count = 2
    /\ resp.squares[25].miner_count = 26

\* The total_deployed field stored in the Round account (raw offset 536)
ChainTotalDeployed == WordAt(ChainRound.data, 536)

\* C14 (as claimed): when the stored total_deployed is 0, percentage_of_total
\* is 0 on every square; when it is positive, it is deployed/total*100.
C14_PercentageZeroWhenNothingDeployed ==
    RespOk(1) =>
        \A i \in 1..25 :
            LET pct == resp.squares[i].percentage_of_total
            IN /\ pct.den # 0
               /\ ChainTotalDeployed = 0 => pct.num = 0
               /\ ChainTotalDeployed > 0 =>
                     /\ pct.num = 100 * WordAt(ChainRound.data, 16 + 8 * (i - 1))
                     /\ pct.den = ChainTotalDeployed

\* C14 (amended): when the stored total_deployed is 0, percentage_of_total is
\* 4.0 on every square (never NaN, never infinite); when it is positive, it
\* is deployed/total*100.
C14_PercentageFourWhenNothingDeployed ==
    RespOk(1) =>
        \A i \in 1..25 :
            LET pct == resp.squares[i].percentage_of_total
            IN /\ pct.den # 0
               /\ ChainTotalDeployed = 0 => (pct.num = 4 /\ pct.den = 1)
               /\ ChainTotalDeployed > 0 =>
                     /\ pct.num = 100 * WordAt(ChainRound.data, 16 + 8 * (i - 1))
                     /\ pct.den = ChainTotalDeployed

\* A summary of a fresh round: nothing deployed, total_deployed 0
C14_Witness_FreshRound ==
    /\ RespOk(1)
    /\ ChainTotalDeployed = 0
    /\ resp.total_deployed_lamports = 0
    /\ resp.squares[7].deployed_lamports = 0

\* C15 (as claimed): in a summary of the first handler at most one square is
\* marked is_winning; when the round is over and its randomness resolves to a
\* winner, exactly the square with that square_num is marked; when the
\* winner is undetermined (round not over, or sentinel randomness), no square
\* is marked.
C15_WinningMarkMatchesWinner ==
    RespOk(1) =>
        LET h          == ChainRandomness(resp.round_id)
            determined == resp.is_intermission /\ ~IsSentinel(h)
        IN /\ Cardinality(WinningSquares) <= 1
           /\ determined => WinningSquares = {ExpectedSquare(h)}
           /\ ~determined => WinningSquares = {}


\* The deployed amounts a summary reports, square by square
ReportedDeployed ==
    IF resp.handler = 1
    THEN [i \in 1..25 |-> resp.squares[i].deployed_lamports]
    ELSE resp.deployed_lamports

\* C16 (as claimed): a summary of a decodable Round account reports as
\* total_deployed the total_deployed field stored in the account, and as the
\* 25 deployed amounts the values stored in it, also when the stored total
\* is not the sum of the amounts; neither is recomputed.
C16_StoredTotalReported ==
    (AnyRespOk /\ ChainRoundDecodable) =>
        /\ resp.total_deployed_lamports = ChainTotalDeployed
        /\ \A i \in 1..25 :
              ReportedDeployed[i] = WordAt(ChainRound.data, 16 + 8 * (i - 1))


----------------------------------------------------------------------------
(* Missing and undecodable accounts *)

Failed(msg) == resp.status = "error" /\ resp.error = msg

\* The raw length the second and third handler need of a Board account
\* (reads at 8, 16, 24), and the third of a current Round account (deployed,
\* read at 16 + 8i) and of a previous Round account (slot hash, 216..247)
BoardReadLen == 32

DeployedReadLen == 216

SlotHashReadLen == 248

ChainRoundId == WordAt(boardAccount.data, 8)

ChainPrevRound == rounds[ChainRoundId - 1]

\* C17 (as claimed): the first handler always answers with a summary, partial
\* if need be; a missing or undecodable account never gives an error-only
\* response.
C17_AlwaysASummary ==
    resp.handler = 1 => (resp.status = "ok" /\ "squares" \in DOMAIN resp)

\* C17 (amended): the first handler builds the summary for every Board and
\* Round that decode; a missing or undecodable account is handled before the
\* summary is built and reaches the consumer as an error-only response.
C17_SummaryOrErrorOnly ==
    resp.handler = 1 =>
        /\ ChainRoundDecodable =>
              /\ resp.status = "ok"
              /\ DOMAIN resp.squares = 1..25
        /\ ~ChainRoundDecodable =>
              /\ resp.status = "error"
              /\ DOMAIN resp = {"handler", "status", "error"}

\* The first handler has answered for a truncated Round account
C17_Witness_TruncatedRound ==
    /\ resp.handler = 1
    /\ ChainBoardDecodable
    /\ ChainRound.exists
    /\ Len(ChainRound.data) = 261
    /\ Failed("Failed to fetch live data")

----------------------------------------------------------------------------
(* Address seeds *)

PdaSites == {pda.first, pda.second, pda.third}

\* C19 (as claimed): at every place the seeds of the Round address for the
\* round id r are exactly ("round", the eight little-endian bytes of r), for
\* every r of the u64 range; the Board address has the single seed "board".
C19_SameSeedsAtEverySite ==
    /\ getBoardPda = << <<98, 111, 97, 114, 100>> >>
    /\ \A site \in PdaSites :
          site.done =>
              /\ ~site.threw
              /\ site.seeds = << <<114, 111, 117, 110, 100>>, pda.roundId >>


----------------------------------------------------------------------------
(* A summary as a snapshot of the chain *)

\* The summary is what the chain held in state s: the slot, the three words
\* of the Board, and the deployed amounts (for the first handler the stored
\* total too) of the Round account of the Board's round, or zeros if the
\* third handler found no such account.
SummaryOf(s) ==
    /\ resp.current_slot = s.slot
    /\ s.board.exists
    /\ resp.round_id = WordAt(s.board.data, 8)
    /\ resp.start_slot = WordAt(s.board.data, 16)
    /\ resp.end_slot = WordAt(s.board.data, 24)
    /\ LET r == s.rounds[resp.round_id]
       IN IF r.exists
          THEN /\ \A i \in 1..25 :
                     ReportedDeployed[i] = WordAt(r.data, 16 + 8 * (i - 1))
               /\ resp.handler = 1 =>
                     resp.total_deployed_lamports = WordAt(r.data, 536)
          ELSE /\ resp.handler = 3
               /\ \A i \in 1..25 : ReportedDeployed[i] = 0

\* C20 (as claimed): a summary returned by a handler is a snapshot: its
\* current_slot, Board fields and Round data were all held by the chain at
\* one single state the chain was in while the handler ran, also when the
\* chain advances a slot or starts a new round between the fetches.
C20_SummaryIsOneInstant ==
    (run.pc = "done" /\ resp.status = "ok") => \E s \in seen : SummaryOf(s)


----------------------------------------------------------------------------
(* Determinism *)

\* What each handler answers as a function of the slot and the accounts
\* alone
FreshResponses(slot, boardAcc) ==
    { GET1Reply(slot, boardAcc,
                IF GET1BoardDecodes(boardAcc) THEN GET1RoundAccount(boardAcc)
                ELSE NoAccount),
      GET2Response(slot, boardAcc),
      GET3Reply(slot, boardAcc,
                IF GET3BoardDecodes(boardAcc)
                THEN getRoundAccount(GET3RoundId(boardAcc)) ELSE NoAccount,
                IF GET3BoardDecodes(boardAcc) /\ GET3RoundId(boardAcc) > 1
                THEN getRoundAccount(GET3RoundId(boardAcc) - 1) ELSE NoAccount) }

----------------------------------------------------------------------------
(* The deployed amounts and the Board fields, handler by handler *)

\* C22 (as claimed): in every handler the deployed amount reported for
\* square i + 1 is the little-endian u64 at raw offset 16 + 8i of the Round
\* account of the Board's round; none takes it from another buffer or
\* offset.
C22_DeployedFromRoundBuffer ==
    (AnyRespOk /\ ChainRound.exists /\ Len(ChainRound.data) >= DeployedReadLen) =>
        \A i \in 0..24 :
            ReportedDeployed[i + 1] = WordAt(ChainRound.data, 16 + 8 * i)


\* C23: every handler decodes the Board account to the same round_id,
\* start_slot and end_slot: the little-endian words at raw bytes 8..15,
\* 16..23 and 24..31 (parseBoard after slice(8) in the first handler, the
\* byte-wise readU64 at 8, 16, 24 in the second and third).
C23_BoardDecodersAgree ==
    AnyRespOk =>
        /\ resp.round_id = WordAt(boardAccount.data, 8)
        /\ resp.start_slot = WordAt(boardAccount.data, 16)
        /\ resp.end_slot = WordAt(boardAccount.data, 24)

\* The first handler has answered for a Board whose three fields differ
C23_Witness_ParseBoardAnswered ==
    /\ RespOk(1)
    /\ resp.round_id = 2
    /\ resp.start_slot = 1
    /\ resp.end_slot = 3


----------------------------------------------------------------------------
(* The winner in the summaries *)

\* C24 (as claimed): in intermission the square the first handler marks
\* is_winning is the one calculateWinningSquare returns for the randomness
\* of the Round account, and no square is marked when it returns null.
C24_InlineWinnerIsCalculateWinningSquare ==
    (RespOk(1) /\ resp.is_intermission) =>
        LET v == calculateWinningSquare(ChainRandomness(resp.round_id))
        IN IF v = Null
           THEN WinningSquares = {}
           ELSE {resp.squares[i].square_num : i \in WinningSquares} = {v}


\* C25: while current_slot < end_slot (is_intermission false) the summary
\* of the first handler marks no square is_winning, whatever the randomness
\* of the Round account.
C25_NoWinnerBeforeTheEnd ==
    (RespOk(1) /\ resp.current_slot < resp.end_slot) =>
        /\ ~resp.is_intermission
        /\ \A i \in 1..25 : ~resp.squares[i].is_winning

\* A summary one slot before the end of a round whose Round account already
\* holds a randomness that resolves to a square
C25_Witness_RandomnessBeforeTheEnd ==
    /\ RespOk(1)
    /\ resp.current_slot = 1149
    /\ resp.end_slot = 1150
    /\ ChainRandomness(resp.round_id) = MixedHash


\* C26: in a summary of the third handler a last_round_id that is not null
\* is round_id - 1, and last_winning_square is then the winner of the 32
\* bytes at raw offset 216..247 of that round's account (null for the two
\* sentinels); when round_id <= 1 or that account does not exist, both are
\* null.
C26_LastRoundIsThePreviousOne ==
    RespOk(3) =>
        /\ resp.last_round_id # Null =>
              /\ resp.last_round_id = resp.round_id - 1
              /\ rounds[resp.last_round_id].exists
              /\ Len(rounds[resp.last_round_id].data) >= SlotHashReadLen =>
                    LET h == ChainRandomness(resp.last_round_id)
                    IN resp.last_winning_square
                         = (IF IsSentinel(h) THEN Null ELSE ExpectedSquare(h))
        /\ (resp.round_id <= 1 \/ ~rounds[resp.round_id - 1].exists) =>
              /\ resp.last_round_id = Null
              /\ resp.last_winning_square = Null

\* A summary of round 2 with the winner of round 1
C26_Witness_PreviousRoundResolved ==
    /\ RespOk(3)
    /\ resp.round_id = 2
    /\ resp.last_round_id = 1
    /\ ChainRandomness(1) = MixedHash
    /\ resp.last_winning_square = ExpectedSquare(MixedHash)


\* The 32 bytes at the top-miner position of the Round account: payload
\* offset 488..519, raw 496..527
ChainTopMiner == SubSeq(ChainRound.data, 497, 528)

\* C27: in the summary of the first handler top_miner is null exactly when
\* the 32 bytes at payload offset 488..519 are all zero, and otherwise is the
\* address of exactly those 32 bytes.
C27_TopMinerNullIffDefault ==
    RespOk(1) =>
        /\ resp.top_miner = NoAddress <=> (\A i \in 1..32 : ChainTopMiner[i] = 0)
        /\ resp.top_miner # NoAddress => resp.top_miner = ChainTopMiner

\* A summary with a top miner
C27_Witness_TopMinerReported ==
    /\ RespOk(1)
    /\ Len(resp.top_miner) = 32
    /\ resp.top_miner[1] = 12
    /\ resp.top_miner[32] = 167


----------------------------------------------------------------------------
(* The test-20 page *)

\* The entries of the log that report a judged round
JudgedEntries == {i \in DOMAIN page.logs : page.logs[i].kind \in {"win", "loss"}}

\* The entries of the log that report the lock of a round
LockEntries(rid) ==
    {i \in DOMAIN page.logs :
        page.logs[i].kind = "locked" /\ page.logs[i].round = rid}

\* The squares a judged round was judged against: a hit is logged with the
\* picks, a miss with the squares left out
PicksOf(entry) ==
    IF entry.kind = "win" THEN entry.squares ELSE AllSquares \ entry.squares

\* C28: from a freshly reset page, whatever the polls deliver and however
\* their callbacks overlap, no round id is judged twice, total is the number
\* of judged rounds, wins the number of hits, and wins + losses = total.
C28_EachRoundJudgedOnce ==
    /\ \A i, j \in JudgedEntries :
          page.logs[i].round = page.logs[j].round => i = j
    /\ page.stats.total = Cardinality(JudgedEntries)
    /\ page.stats.wins =
          Cardinality({i \in JudgedEntries : page.logs[i].kind = "win"})
    /\ page.stats.wins + page.stats.losses = page.stats.total

\* Two rounds judged, one hit and one miss, with a callback still in flight
C28_Witness_HitAndMissJudged ==
    /\ page.stats.total = 2
    /\ page.stats.wins = 1
    /\ page.stats.losses = 1
    /\ page.processedResults = {1, 2}
    /\ polls.state + polls.results > 0

\* C29: a judged round was judged against the squares of the first lock the
\* page logged for that round id, and a result without a lock of twenty
\* squares leaves wins, losses and total as they were.
C29_JudgedAgainstFirstLock ==
    /\ \A i \in JudgedEntries :
          \E j \in LockEntries(page.logs[i].round) :
             /\ j < i
             /\ \A k \in LockEntries(page.logs[i].round) : j <= k
             /\ page.logs[j].squares = PicksOf(page.logs[i])
    /\ page.stats.total = Cardinality(JudgedEntries)
    /\ page.stats.wins + page.stats.losses = page.stats.total

----------------------------------------------------------------------------
(* RoundTimer *)

\* C30: the time RoundTimer shows is never negative, neither when it is
\* rendered first, nor after an update of its props, nor after a tick.
C30_DisplayTimeNeverNegative == timer.displayTime >= 0

====
